---- MODULE Spec2Model ----
(***************************************************************************)
(* A model of the Quadtree class of quadtree.cpp / quadtree.h.             *)
(*                                                                         *)
(* The heap is a function from node addresses to QuadtreeNode cells; a     *)
(* Quadtree object is a root pointer and a resolution.  Every recursive    *)
(* helper of the class is a RECURSIVE operator over the heap, every public *)
(* mutator is one action.  The const queries (getPixel, decompress,        *)
(* pruneSize) are operators over the current state; idealPrune is stepped  *)
(* one searchTolerance invocation at a time.                               *)
(***************************************************************************)
EXTENDS Integers, Sequences, FiniteSets, TLC

VARIABLES
    heap,   \* node address -> QuadtreeNode cell (allocated or free)
    root,   \* tree object -> address of its root node, or Null
    res,    \* tree object -> resolution of the underlying bitmap
    alive,  \* tree object -> constructed and not yet destroyed
    call    \* the idealPrune call in progress: one searchTolerance frame

vars == <<heap, root, res, alive, call>>

(***************************************************************************)
(* Bounds of the model.                                                    *)
(***************************************************************************)
\* Node addresses the allocator keeps for one tree object: a tree of
\* resolution 4 holds 1 + 4 + 16 nodes.
NodesPerTree == 21

\* The tree objects of the program under analysis.
Trees == {"a", "b"}

\* Resolutions handed to buildTree: powers of two, at most the source width.
Resolutions == {1, 2, 4}

(***************************************************************************)
(* Program constants.                                                      *)
(***************************************************************************)
Null == 0
MIN_TOLERANCE == 0
MAX_TOLERANCE == 3 * (255 * 255)

NodeIds == 1..(2 * NodesPerTree)

\* The allocator serves each tree object from a region of its own, lowest
\* free address first.  The program never compares or orders addresses, so
\* which free address operator new returns is immaterial to it.
Arena(t) == IF t = "a" THEN 1..NodesPerTree
                       ELSE (NodesPerTree + 1)..(2 * NodesPerTree)

(***************************************************************************)
(* Pixels and source images.                                               *)
(***************************************************************************)
RGBAPixel(r, g, b, a) == [red |-> r, green |-> g, blue |-> b, alpha |-> a]

\* The pixel made by RGBAPixel's default constructor (opaque white).
DefaultPixel == RGBAPixel(255, 255, 255, 255)

Grey(v) == RGBAPixel(v, v, v, 255)

\* Four solid 2 x 2 quadrants: red, green, blue, white.
Quadrants ==
    [p \in (0..3) \X (0..3) |->
        IF p[1] < 2 /\ p[2] < 2 THEN RGBAPixel(255, 0, 0, 255)
        ELSE IF p[1] >= 2 /\ p[2] < 2 THEN RGBAPixel(0, 255, 0, 255)
        ELSE IF p[1] < 2 /\ p[2] >= 2 THEN RGBAPixel(0, 0, 255, 255)
        ELSE RGBAPixel(255, 255, 255, 255)]

\* Greys: NW quadrant alternates 0 and 8, NE is 10, SW is 4, SE is 6.
Shades ==
    [p \in (0..3) \X (0..3) |->
        IF p[1] < 2 /\ p[2] < 2 THEN Grey(8 * p[1])
        ELSE IF p[1] >= 2 /\ p[2] < 2 THEN Grey(10)
        ELSE IF p[1] < 2 /\ p[2] >= 2 THEN Grey(4)
        ELSE Grey(6)]

\* Every pixel different: red follows x, green follows y, alpha both.
Gradient ==
    [p \in (0..3) \X (0..3) |->
        RGBAPixel(p[1], p[2], 250, 255 - 16 * (p[1] + 4 * p[2]))]

\* Sources handed to buildTree where two tree objects live side by side,
\* and where one object is followed through its life.
SourceNames == {"Shades", "Gradient"}
TreeSourceNames == SourceNames \cup {"Quadrants"}

Source(name) ==
    CASE name = "Shades" -> Shades
      [] name = "Gradient" -> Gradient
      [] name = "Quadrants" -> Quadrants

\* Tolerances handed to prune, likewise.
Tolerances == {0, 48, MAX_TOLERANCE}
TreeTolerances == Tolerances \cup {2, 108, 49151}

\* Leaf budgets handed to idealPrune.
LeafBudgets == {1, 4, 7, 16}

(***************************************************************************)
(* Heap cells.                                                             *)
(***************************************************************************)
QuadtreeNode(elem) ==
    [nwChild |-> Null, neChild |-> Null, swChild |-> Null, seChild |-> Null,
     element |-> elem, alloc |-> TRUE]

FreeCell ==
    [nwChild |-> Null, neChild |-> Null, swChild |-> Null, seChild |-> Null,
     element |-> DefaultPixel, alloc |-> FALSE]

\* operator new: the lowest free address of the arena.
NewAddr(h, arena) == CHOOSE n \in arena :
                         /\ ~h[n].alloc
                         /\ \A m \in arena : ~h[m].alloc => n <= m

hasChildren(h, node) == h[node].nwChild # Null

(***************************************************************************)
(* Deep delete and deep copy.                                              *)
(***************************************************************************)
RECURSIVE deleteQuadtreeNode(_, _)
deleteQuadtreeNode(h, node) ==
    IF node = Null THEN h
    ELSE LET h1 == deleteQuadtreeNode(h, h[node].nwChild)
             h2 == deleteQuadtreeNode(h1, h[node].neChild)
             h3 == deleteQuadtreeNode(h2, h[node].swChild)
             h4 == deleteQuadtreeNode(h3, h[node].seChild)
         IN  [h4 EXCEPT ![node] = FreeCell]

\* Mutant of copyQuadtreeNode: the pointer is copied, not the node.
copyQuadtreeNode_shallow(h, arena, myNode, otherNode) ==
    IF otherNode = Null THEN [heap |-> h, node |-> myNode]
    ELSE [heap |-> h, node |-> otherNode]

\* Returns the heap and the value left in the reference myNode.
RECURSIVE copyQuadtreeNode(_, _, _, _)
copyQuadtreeNode(h, arena, myNode, otherNode) ==
    IF otherNode = Null THEN [heap |-> h, node |-> myNode]
    ELSE LET n  == NewAddr(h, arena)
             h0 == [h EXCEPT ![n] = QuadtreeNode(h[otherNode].element)]
             c1 == copyQuadtreeNode(h0, arena, Null, h[otherNode].nwChild)
             c2 == copyQuadtreeNode(c1.heap, arena, Null, h[otherNode].neChild)
             c3 == copyQuadtreeNode(c2.heap, arena, Null, h[otherNode].swChild)
             c4 == copyQuadtreeNode(c3.heap, arena, Null, h[otherNode].seChild)
         IN  [heap |-> [c4.heap EXCEPT ![n].nwChild = c1.node,
                                       ![n].neChild = c2.node,
                                       ![n].swChild = c3.node,
                                       ![n].seChild = c4.node],
              node |-> n]

(***************************************************************************)
(* Construction and averaging.                                             *)
(***************************************************************************)
\* Mutant of getAvg: the sum is kept in 8 bits before it is divided.
getAvg_wrapped(n1, n2, n3, n4) == ((n1 + n2 + n3 + n4) % 256) \div 4

getAvg(n1, n2, n3, n4) == ((n1 + n2 + n3 + n4) \div 4) % 256

getAvgPixelOfChildren(h, node) ==
    LET nwElem == h[h[node].nwChild].element
        neElem == h[h[node].neChild].element
        swElem == h[h[node].swChild].element
        seElem == h[h[node].seChild].element
    IN  RGBAPixel(getAvg(nwElem.red, neElem.red, swElem.red, seElem.red),
                  getAvg(nwElem.green, neElem.green, swElem.green, seElem.green),
                  getAvg(nwElem.blue, neElem.blue, swElem.blue, seElem.blue),
                  getAvg(nwElem.alpha, neElem.alpha, swElem.alpha, seElem.alpha))

\* Mutant of PixelAt: the coordinates are handed over in the wrong order.
PixelAt_transposed(source, x, y) == source[<<y, x>>]

\* source(x, y): the pixel of the PNG in column x, row y.
PixelAt(source, x, y) == source[<<x, y>>]

RECURSIVE buildTreeNode(_, _, _, _, _, _)
buildTreeNode(h, arena, source, resolution, x, y) ==
    LET n == NewAddr(h, arena)
    IN  IF resolution = 1
        THEN [heap |-> [h EXCEPT ![n] = QuadtreeNode(PixelAt(source, x, y))],
              node |-> n]
        ELSE LET h0 == [h EXCEPT ![n] = QuadtreeNode(DefaultPixel)]
                 childResolution == resolution \div 2
                 b1 == buildTreeNode(h0, arena, source, childResolution, x, y)
                 b2 == buildTreeNode(b1.heap, arena, source, childResolution,
                                     x + childResolution, y)
                 b3 == buildTreeNode(b2.heap, arena, source, childResolution,
                                     x, y + childResolution)
                 b4 == buildTreeNode(b3.heap, arena, source, childResolution,
                                     x + childResolution, y + childResolution)
                 h5 == [b4.heap EXCEPT ![n].nwChild = b1.node,
                                       ![n].neChild = b2.node,
                                       ![n].swChild = b3.node,
                                       ![n].seChild = b4.node]
             IN  [heap |-> [h5 EXCEPT ![n].element = getAvgPixelOfChildren(h5, n)],
                  node |-> n]

(***************************************************************************)
(* Queries: getPixel and decompress.                                       *)
(***************************************************************************)
\* Mutant of outOfBound: the upper bounds are compared inclusively.
outOfBound_inclusive(rs, x, y) == x < 0 \/ y < 0 \/ x > rs \/ y > rs

outOfBound(rs, x, y) == x < 0 \/ y < 0 \/ x >= rs \/ y >= rs

RECURSIVE getPixelNode(_, _, _, _, _)
getPixelNode(h, x, y, node, resolution) ==
    IF ~hasChildren(h, node) THEN h[node].element
    ELSE LET r == resolution \div 2
         IN  IF x < r /\ y < r THEN getPixelNode(h, x, y, h[node].nwChild, r)
             ELSE IF x < r /\ y >= r THEN getPixelNode(h, x, y, h[node].swChild, r)
             ELSE IF x >= r /\ y < r THEN getPixelNode(h, x, y, h[node].neChild, r)
             ELSE getPixelNode(h, x, y, h[node].seChild, r)

getPixel(h, rt, rs, x, y) ==
    IF outOfBound(rs, x, y) \/ rt = Null THEN DefaultPixel
    ELSE getPixelNode(h, x, y, rt, rs)

\* PNG img(width, height): every pixel default-constructed.
PNG(width, height) ==
    [p \in (0..(width - 1)) \X (0..(height - 1)) |-> DefaultPixel]

RECURSIVE transform(_, _, _, _, _, _)
transform(h, img, resolution, x, y, node) ==
    IF ~hasChildren(h, node)
    THEN [p \in DOMAIN img |->
            IF /\ p[1] >= x /\ p[1] < x + resolution
               /\ p[2] >= y /\ p[2] < y + resolution
            THEN h[node].element ELSE img[p]]
    ELSE LET childResolution == resolution \div 2
             i1 == transform(h, img, childResolution, x, y, h[node].nwChild)
             i2 == transform(h, i1, childResolution, x + childResolution, y,
                             h[node].neChild)
             i3 == transform(h, i2, childResolution, x, y + childResolution,
                             h[node].swChild)
         IN  transform(h, i3, childResolution, x + childResolution,
                       y + childResolution, h[node].seChild)

decompress(h, rt, rs) ==
    IF rt = Null THEN PNG(0, 0)
    ELSE transform(h, PNG(rs, rs), rs, 0, 0, rt)

(***************************************************************************)
(* Rotation.                                                               *)
(***************************************************************************)
\* Mutant of clockwiseRotateNode: the four relations are reassigned at the
\* node itself and the recursion into the children is missing.
clockwiseRotateNode_shallow(h, node) ==
    IF ~hasChildren(h, node) THEN h
    ELSE [h EXCEPT ![node].nwChild = h[node].swChild,
                   ![node].swChild = h[node].seChild,
                   ![node].seChild = h[node].neChild,
                   ![node].neChild = h[node].nwChild]

\* Mutant of clockwiseRotateNode: nwChild is not saved before it is
\* overwritten, so neChild receives the new nwChild.
RECURSIVE clockwiseRotateNode_noTemp(_, _)
clockwiseRotateNode_noTemp(h, node) ==
    IF ~hasChildren(h, node) THEN h
    ELSE LET h0 == [h EXCEPT ![node].nwChild = h[node].swChild,
                             ![node].swChild = h[node].seChild,
                             ![node].seChild = h[node].neChild,
                             ![node].neChild = h[node].swChild]
             h1 == clockwiseRotateNode_noTemp(h0, h0[node].nwChild)
             h2 == clockwiseRotateNode_noTemp(h1, h1[node].swChild)
             h3 == clockwiseRotateNode_noTemp(h2, h2[node].seChild)
         IN  clockwiseRotateNode_noTemp(h3, h3[node].neChild)

RECURSIVE clockwiseRotateNode(_, _)
clockwiseRotateNode(h, node) ==
    IF ~hasChildren(h, node) THEN h
    ELSE LET tempNode == h[node].nwChild
             h0 == [h EXCEPT ![node].nwChild = h[node].swChild,
                             ![node].swChild = h[node].seChild,
                             ![node].seChild = h[node].neChild,
                             ![node].neChild = tempNode]
             h1 == clockwiseRotateNode(h0, h0[node].nwChild)
             h2 == clockwiseRotateNode(h1, h1[node].swChild)
             h3 == clockwiseRotateNode(h2, h2[node].seChild)
         IN  clockwiseRotateNode(h3, h3[node].neChild)

(***************************************************************************)
(* Pruning.                                                                *)
(***************************************************************************)
square(n) == n * n

\* Mutant of isPrunable: a difference equal to the tolerance is rejected.
isPrunable_strict(tolerance, avgPixel, nodePixel) ==
    LET diff == square(avgPixel.red - nodePixel.red)
                + square(avgPixel.green - nodePixel.green)
                + square(avgPixel.blue - nodePixel.blue)
    IN  diff < tolerance

\* Mutant of isPrunable: the difference may exceed the tolerance by 48.
isPrunable_slack(tolerance, avgPixel, nodePixel) ==
    LET diff == square(avgPixel.red - nodePixel.red)
                + square(avgPixel.green - nodePixel.green)
                + square(avgPixel.blue - nodePixel.blue)
    IN  diff <= tolerance + 48

isPrunable(tolerance, avgPixel, nodePixel) ==
    LET diff == square(avgPixel.red - nodePixel.red)
                + square(avgPixel.green - nodePixel.green)
                + square(avgPixel.blue - nodePixel.blue)
    IN  diff <= tolerance

\* Mutant of isChildrenPrunable: one leaf within the tolerance is enough.
RECURSIVE isChildrenPrunable_any(_, _, _, _)
isChildrenPrunable_any(h, tolerance, rootNode, node) ==
    IF ~hasChildren(h, node)
    THEN isPrunable(tolerance, h[rootNode].element, h[node].element)
    ELSE LET p1 == isChildrenPrunable_any(h, tolerance, rootNode, h[node].nwChild)
             p2 == isChildrenPrunable_any(h, tolerance, rootNode, h[node].neChild)
             p3 == isChildrenPrunable_any(h, tolerance, rootNode, h[node].swChild)
             p4 == isChildrenPrunable_any(h, tolerance, rootNode, h[node].seChild)
         IN  p1 \/ p2 \/ p3 \/ p4

RECURSIVE isChildrenPrunable(_, _, _, _)
isChildrenPrunable(h, tolerance, rootNode, node) ==
    IF ~hasChildren(h, node)
    THEN isPrunable(tolerance, h[rootNode].element, h[node].element)
    ELSE LET p1 == isChildrenPrunable(h, tolerance, rootNode, h[node].nwChild)
             p2 == isChildrenPrunable(h, tolerance, rootNode, h[node].neChild)
             p3 == isChildrenPrunable(h, tolerance, rootNode, h[node].swChild)
             p4 == isChildrenPrunable(h, tolerance, rootNode, h[node].seChild)
         IN  p1 /\ p2 /\ p3 /\ p4

\* Mutant of pruneChildren: the south-east subtree is left in place.
pruneChildren_keepsSe(h, node) ==
    LET h1 == [deleteQuadtreeNode(h, h[node].nwChild) EXCEPT ![node].nwChild = Null]
        h2 == [deleteQuadtreeNode(h1, h1[node].neChild) EXCEPT ![node].neChild = Null]
    IN  [deleteQuadtreeNode(h2, h2[node].swChild) EXCEPT ![node].swChild = Null]

pruneChildren(h, node) ==
    LET h1 == [deleteQuadtreeNode(h, h[node].nwChild) EXCEPT ![node].nwChild = Null]
        h2 == [deleteQuadtreeNode(h1, h1[node].neChild) EXCEPT ![node].neChild = Null]
        h3 == [deleteQuadtreeNode(h2, h2[node].swChild) EXCEPT ![node].swChild = Null]
    IN  [deleteQuadtreeNode(h3, h3[node].seChild) EXCEPT ![node].seChild = Null]

\* Mutant of pruneNode: the children are pruned first and the node is
\* judged on what is left of them (an iterative prune).
RECURSIVE pruneNode_iterative(_, _, _)
pruneNode_iterative(h, tolerance, node) ==
    IF ~hasChildren(h, node) THEN h
    ELSE LET h1 == pruneNode_iterative(h, tolerance, h[node].nwChild)
             h2 == pruneNode_iterative(h1, tolerance, h1[node].neChild)
             h3 == pruneNode_iterative(h2, tolerance, h2[node].swChild)
             h4 == pruneNode_iterative(h3, tolerance, h3[node].seChild)
         IN  IF isChildrenPrunable(h4, tolerance, node, node)
             THEN pruneChildren(h4, node)
             ELSE h4

RECURSIVE pruneNode(_, _, _)
pruneNode(h, tolerance, node) ==
    IF ~hasChildren(h, node) THEN h
    ELSE IF isChildrenPrunable(h, tolerance, node, node)
         THEN pruneChildren(h, node)
         ELSE LET h1 == pruneNode(h, tolerance, h[node].nwChild)
                  h2 == pruneNode(h1, tolerance, h1[node].neChild)
                  h3 == pruneNode(h2, tolerance, h2[node].swChild)
              IN  pruneNode(h3, tolerance, h3[node].seChild)

\* Mutant of pruneSizeNode: the prunability test is negated.
RECURSIVE pruneSizeNode_negated(_, _, _)
pruneSizeNode_negated(h, tolerance, node) ==
    IF ~hasChildren(h, node) THEN 1
    ELSE IF ~isChildrenPrunable(h, tolerance, node, node) THEN 1
         ELSE pruneSizeNode_negated(h, tolerance, h[node].nwChild)
              + pruneSizeNode_negated(h, tolerance, h[node].neChild)
              + pruneSizeNode_negated(h, tolerance, h[node].swChild)
              + pruneSizeNode_negated(h, tolerance, h[node].seChild)

RECURSIVE pruneSizeNode(_, _, _)
pruneSizeNode(h, tolerance, node) ==
    IF ~hasChildren(h, node) THEN 1
    ELSE IF isChildrenPrunable(h, tolerance, node, node) THEN 1
         ELSE pruneSizeNode(h, tolerance, h[node].nwChild)
              + pruneSizeNode(h, tolerance, h[node].neChild)
              + pruneSizeNode(h, tolerance, h[node].swChild)
              + pruneSizeNode(h, tolerance, h[node].seChild)

pruneSize(h, rt, tolerance) ==
    IF rt = Null THEN 0 ELSE pruneSizeNode(h, tolerance, rt)

(***************************************************************************)
(* One invocation of searchTolerance: either it returns tryTolerance or    *)
(* it calls itself on a new interval.                                      *)
(***************************************************************************)
\* Mutant of searchTolerance: the first tolerance that meets the budget is
\* returned, without the probe of tryTolerance - 1.
searchTolerance_noLowerProbe(h, rt, numLeaves, minTolerance, maxTolerance) ==
    LET tryTolerance == (minTolerance + maxTolerance) \div 2
        numLeavesAfterTry == pruneSize(h, rt, tryTolerance)
    IN  IF numLeavesAfterTry <= numLeaves
        THEN [pc |-> "returned", numLeaves |-> numLeaves,
              minTolerance |-> 0, maxTolerance |-> 0, ret |-> tryTolerance]
        ELSE [pc |-> "searchTolerance", numLeaves |-> numLeaves,
              minTolerance |-> tryTolerance, maxTolerance |-> maxTolerance,
              ret |-> 0]

searchTolerance(h, rt, numLeaves, minTolerance, maxTolerance) ==
    LET tryTolerance == (minTolerance + maxTolerance) \div 2
        numLeavesAfterTry == pruneSize(h, rt, tryTolerance)
    IN  IF numLeavesAfterTry <= numLeaves
        THEN IF pruneSize(h, rt, tryTolerance - 1) > numLeaves
             THEN [pc |-> "returned", numLeaves |-> numLeaves,
                   minTolerance |-> 0, maxTolerance |-> 0, ret |-> tryTolerance]
             ELSE [pc |-> "searchTolerance", numLeaves |-> numLeaves,
                   minTolerance |-> minTolerance, maxTolerance |-> tryTolerance,
                   ret |-> 0]
        ELSE [pc |-> "searchTolerance", numLeaves |-> numLeaves,
              minTolerance |-> tryTolerance, maxTolerance |-> maxTolerance,
              ret |-> 0]

(***************************************************************************)
(* State machine.                                                          *)
(***************************************************************************)
NoCall == [pc |-> "idle", numLeaves |-> 0, minTolerance |-> 0,
           maxTolerance |-> 0, ret |-> 0]

\* A queried grid: getPixel at every coordinate of the bitmap.
Pixels(h, rt, rs) ==
    [p \in (0..(rs - 1)) \X (0..(rs - 1)) |-> getPixel(h, rt, rs, p[1], p[2])]

\* No idealPrune call is on the stack.
Ready == call.pc # "searchTolerance"

\* Quadtree a; in the initial state, with b not yet constructed.
Init ==
    /\ heap = [n \in NodeIds |-> FreeCell]
    /\ root = [t \in Trees |-> Null]
    /\ res = [t \in Trees |-> 0]
    /\ alive = [t \in Trees |-> t = "a"]
    /\ call = NoCall

\* Quadtree::Quadtree()
DefaultConstruct(t) ==
    /\ Ready /\ ~alive[t]
    /\ alive' = [alive EXCEPT ![t] = TRUE]
    /\ root' = [root EXCEPT ![t] = Null]
    /\ res' = [res EXCEPT ![t] = 0]
    /\ call' = NoCall
    /\ UNCHANGED heap

\* buildTree(source, resolution) on the object's current root.
buildTree(h, arena, rt, source, resolution) ==
    buildTreeNode(deleteQuadtreeNode(h, rt), arena, source, resolution, 0, 0)

BuildTree(t, name, resolution) ==
    /\ Ready /\ alive[t]
    /\ LET b == buildTree(heap, Arena(t), root[t], Source(name), resolution)
       IN  /\ heap' = b.heap
           /\ root' = [root EXCEPT ![t] = b.node]
    /\ res' = [res EXCEPT ![t] = resolution]
    /\ call' = NoCall
    /\ UNCHANGED alive

\* Quadtree::Quadtree(PNG const& source, int resolution)
BuildConstruct(t, name, resolution) ==
    /\ Ready /\ ~alive[t]
    /\ LET b == buildTree(heap, Arena(t), Null, Source(name), resolution)
       IN  /\ heap' = b.heap
           /\ root' = [root EXCEPT ![t] = b.node]
    /\ res' = [res EXCEPT ![t] = resolution]
    /\ alive' = [alive EXCEPT ![t] = TRUE]
    /\ call' = NoCall

\* copyQuadtree(other) on an object whose root is myRoot: the root of other
\* is read after this object's nodes are deleted and its root nulled.
copyQuadtree(h, arena, myRoot, otherRoot, same) ==
    LET h1 == deleteQuadtreeNode(h, myRoot)
    IN  copyQuadtreeNode(h1, arena, Null, IF same THEN Null ELSE otherRoot)

\* operator=
Assign(t, other) ==
    /\ Ready /\ alive[t] /\ alive[other]
    /\ LET c == copyQuadtree(heap, Arena(t), root[t], root[other], t = other)
       IN  /\ heap' = c.heap
           /\ root' = [root EXCEPT ![t] = c.node]
    /\ res' = [res EXCEPT ![t] = res[other]]
    /\ call' = NoCall
    /\ UNCHANGED alive

\* Quadtree::Quadtree(Quadtree const& other)
CopyConstruct(t, other) ==
    /\ Ready /\ ~alive[t] /\ alive[other]
    /\ LET c == copyQuadtree(heap, Arena(t), Null, root[other], FALSE)
       IN  /\ heap' = c.heap
           /\ root' = [root EXCEPT ![t] = c.node]
    /\ res' = [res EXCEPT ![t] = res[other]]
    /\ alive' = [alive EXCEPT ![t] = TRUE]
    /\ call' = NoCall

\* Quadtree::~Quadtree()
Destroy(t) ==
    /\ Ready /\ alive[t]
    /\ heap' = deleteQuadtreeNode(heap, root[t])
    /\ root' = [root EXCEPT ![t] = Null]
    /\ res' = [res EXCEPT ![t] = 0]
    /\ alive' = [alive EXCEPT ![t] = FALSE]
    /\ call' = NoCall

clockwiseRotate(h, rt) == IF rt # Null THEN clockwiseRotateNode(h, rt) ELSE h

ClockwiseRotate(t) ==
    /\ Ready /\ alive[t]
    /\ heap' = clockwiseRotate(heap, root[t])
    /\ call' = NoCall
    /\ UNCHANGED <<root, res, alive>>

prune(h, rt, tolerance) == IF rt # Null THEN pruneNode(h, tolerance, rt) ELSE h

Prune(t, tolerance) ==
    /\ Ready /\ alive[t]
    /\ heap' = prune(heap, root[t], tolerance)
    /\ call' = NoCall
    /\ UNCHANGED <<root, res, alive>>

\* Mutant of PruneSize: the count is taken by pruning the tree.
PruneSize_prunes(t, tolerance) ==
    /\ Ready /\ alive[t]
    /\ call' = [pc |-> "pruneSize", tree |-> t, tolerance |-> tolerance,
                ret |-> pruneSize(heap, root[t], tolerance)]
    /\ heap' = prune(heap, root[t], tolerance)
    /\ UNCHANGED <<root, res, alive>>

\* pruneSize(tolerance) const: the call returns its count to the caller and
\* assigns to nothing of the tree.
PruneSize(t, tolerance) ==
    /\ Ready /\ alive[t]
    /\ call' = [pc |-> "pruneSize", tree |-> t, tolerance |-> tolerance,
                ret |-> pruneSize(heap, root[t], tolerance)]
    /\ UNCHANGED <<heap, root, res, alive>>

\* idealPrune(numLeaves) on tree a: the empty tree returns at once, any
\* other enters searchTolerance(numLeaves, MIN_TOLERANCE, MAX_TOLERANCE).
IdealPrune(numLeaves) ==
    /\ Ready /\ alive["a"]
    /\ call' = IF root["a"] = Null
               THEN [pc |-> "returned", numLeaves |-> numLeaves,
                     minTolerance |-> 0, maxTolerance |-> 0, ret |-> 0]
               ELSE [pc |-> "searchTolerance", numLeaves |-> numLeaves,
                     minTolerance |-> MIN_TOLERANCE,
                     maxTolerance |-> MAX_TOLERANCE, ret |-> 0]
    /\ UNCHANGED <<heap, root, res, alive>>

\* The body of the searchTolerance invocation on top of the stack.
SearchTolerance ==
    /\ call.pc = "searchTolerance"
    /\ call' = searchTolerance(heap, root["a"], call.numLeaves,
                               call.minTolerance, call.maxTolerance)
    /\ UNCHANGED <<heap, root, res, alive>>

Next ==
    \/ \E t \in Trees : DefaultConstruct(t)
    \/ \E t \in Trees, name \in SourceNames, r \in Resolutions :
          BuildConstruct(t, name, r)
    \/ \E t \in Trees, name \in SourceNames, r \in Resolutions :
          BuildTree(t, name, r)
    \/ \E t \in Trees, other \in Trees : CopyConstruct(t, other)
    \/ \E t \in Trees, other \in Trees : Assign(t, other)
    \/ \E t \in Trees : Destroy(t)
    \/ \E t \in Trees : ClockwiseRotate(t)
    \/ \E t \in Trees, tolerance \in Tolerances : Prune(t, tolerance)

Spec == Init /\ [][Next]_vars

\* The life of one tree object: a is rebuilt, assigned to itself, pruned and
\* rotated, and idealPrune is called on it.
TreeNext ==
    \/ \E name \in TreeSourceNames, r \in Resolutions : BuildTree("a", name, r)
    \/ Assign("a", "a")
    \/ ClockwiseRotate("a")
    \/ \E tolerance \in TreeTolerances : Prune("a", tolerance)
    \/ \E numLeaves \in LeafBudgets : IdealPrune(numLeaves)
    \/ SearchTolerance

TreeSpec == Init /\ [][TreeNext]_vars

\* The program is single-threaded and synchronous: a searchTolerance
\* invocation that has been entered runs its body.
FairTreeSpec == TreeSpec /\ WF_vars(SearchTolerance)

\* The life of one tree object with the pruneSize query called on it
\* between the other operations.
QueryNext ==
    \/ TreeNext
    \/ \E tolerance \in TreeTolerances : PruneSize("a", tolerance)

QuerySpec == Init /\ [][QueryNext]_vars

(***************************************************************************)
(* Vocabulary of the properties: the shape of a tree read off the heap,    *)
(* independently of the program's traversals.                              *)
(***************************************************************************)
Children(h, n) ==
    {h[n].nwChild, h[n].neChild, h[n].swChild, h[n].seChild} \ {Null}

RECURSIVE Subtree(_, _)
Subtree(h, n) ==
    IF n = Null THEN {}
    ELSE {n} \cup UNION {Subtree(h, c) : c \in Children(h, n)}

IsLeaf(h, n) == Children(h, n) = {}

LeavesBelow(h, n) == {m \in Subtree(h, n) : IsLeaf(h, m)}

ProperAncestors(h, rt, n) ==
    {a \in Subtree(h, rt) : a # n /\ n \in Subtree(h, a)}

\* Squared RGB distance; alpha does not count.
Dist(p, q) ==
    (p.red - q.red) * (p.red - q.red)
    + (p.green - q.green) * (p.green - q.green)
    + (p.blue - q.blue) * (p.blue - q.blue)

\* Every leaf below n is within tolerance of n's own color.
WithinTolerance(h, n, tolerance) ==
    \A l \in LeavesBelow(h, n) : Dist(h[l].element, h[n].element) <= tolerance

\* The upper-left resolution x resolution block of a source image.
Crop(source, resolution) ==
    [p \in (0..(resolution - 1)) \X (0..(resolution - 1)) |-> source[p]]

Coordinates(rs) == (0..(rs - 1)) \X (0..(rs - 1))

\* Tolerances at which prune and pruneSize are examined: -1 (the probe
\* below MIN_TOLERANCE), both ends of the search interval and the values
\* around every threshold of the source images.
ProbeTolerances ==
    {-1, 0, 1, 2, 3, 4, 5, 7, 8, 9, 11, 12, 13, 47, 48, 49, 107, 108, 109,
     48641, 48642, 48643, 49151, 49152, 49153,
     MAX_TOLERANCE - 1, MAX_TOLERANCE}

NonEmpty(t) == alive[t] /\ root[t] # Null

(***************************************************************************)
(* C1: buildTree(source, R) followed by decompress(), with no prune in     *)
(* between, returns the R x R grid whose pixel at every (x, y) is the      *)
(* source pixel (x, y), in all four channels; whatever the tree held       *)
(* before the build.                                                       *)
(***************************************************************************)
BuildThenDecompress ==
    \A t \in Trees, name \in TreeSourceNames, r \in Resolutions :
        alive[t] =>
            LET b == buildTree(heap, Arena(t), root[t], Source(name), r)
            IN  decompress(b.heap, b.node, r) = Crop(Source(name), r)

\* A tree of resolution 4 holding all sixteen pixels of Gradient.
BuiltGradient ==
    /\ NonEmpty("a") /\ res["a"] = 4
    /\ Cardinality(LeavesBelow(heap, root["a"])) = 16
    /\ decompress(heap, root["a"], res["a"]) = Gradient

(***************************************************************************)
(* C2: for every non-empty tree and every (x, y) inside the bitmap,        *)
(* getPixel(x, y) returns the color decompress() writes at cell (x, y).    *)
(***************************************************************************)
GetPixelIsDecompressedCell ==
    \A t \in Trees :
        NonEmpty(t) =>
            \A p \in Coordinates(res[t]) :
                getPixel(heap, root[t], res[t], p[1], p[2])
                    = decompress(heap, root[t], res[t])[p]

\* The built Gradient tree answers getPixel(2, 0) with source pixel (3, 0),
\* where decompress has source pixel (2, 0).
GetPixelOffByOneCell ==
    /\ BuiltGradient
    /\ getPixel(heap, root["a"], 4, 2, 0) = Gradient[<<3, 0>>]
    /\ decompress(heap, root["a"], 4)[<<2, 0>>] = Gradient[<<2, 0>>]
    /\ Gradient[<<3, 0>>] # Gradient[<<2, 0>>]

(***************************************************************************)
(* C3: prune(t) is one pass judged on the tree T it starts from.  A node   *)
(* n of T is a leaf of the result exactly when (n is a leaf of T, or every *)
(* leaf of T below n is within t of n's color) and no proper ancestor of n *)
(* has every leaf of T below it within t of its color; every surviving     *)
(* node keeps the color it had in T.                                       *)
(***************************************************************************)
PruneIsOnePass ==
    \A t \in Trees, tolerance \in ProbeTolerances :
        (NonEmpty(t) /\ Ready) =>
            LET T == heap
                P == prune(heap, root[t], tolerance)
                survivors == Subtree(P, root[t])
            IN  /\ survivors \subseteq Subtree(T, root[t])
                /\ \A n \in Subtree(T, root[t]) :
                      (n \in survivors /\ IsLeaf(P, n))
                      <=> (/\ IsLeaf(T, n) \/ WithinTolerance(T, n, tolerance)
                           /\ \A a \in ProperAncestors(T, root[t], n) :
                                 ~WithinTolerance(T, a, tolerance))
                /\ \A n \in survivors : P[n].element = T[n].element

\* A pruned tree: the root kept its children, one of them was collapsed
\* into a leaf covering a 2 x 2 block, another still has its four leaves.
PartlyPruned ==
    /\ NonEmpty("a") /\ res["a"] = 4
    /\ \E c \in Children(heap, root["a"]) : IsLeaf(heap, c)
    /\ \E c \in Children(heap, root["a"]) : ~IsLeaf(heap, c)

(***************************************************************************)
(* C4: the number of leaves the tree has after prune(t) equals the value   *)
(* pruneSize(t) returned on the same tree immediately before the prune.    *)
(***************************************************************************)
PruneSizePredictsPrune ==
    \A t \in Trees, tolerance \in ProbeTolerances :
        (alive[t] /\ Ready) =>
            Cardinality(LeavesBelow(prune(heap, root[t], tolerance), root[t]))
                = pruneSize(heap, root[t], tolerance)

\* A tree on which prune(48) removes nodes while the root stays internal.
PruneRemovesSome ==
    /\ NonEmpty("a")
    /\ pruneSize(heap, root["a"], 48) > 1
    /\ pruneSize(heap, root["a"], 48)
          < Cardinality(LeavesBelow(heap, root["a"]))

(***************************************************************************)
(* C5: the value t returned by idealPrune(numLeaves) on a non-empty tree,  *)
(* numLeaves >= 1, is the minimum tolerance in [0, 3*255*255] with         *)
(* pruneSize(t) <= numLeaves: pruneSize(t) <= numLeaves, and t = 0 or      *)
(* pruneSize(t - 1) > numLeaves.                                           *)
(***************************************************************************)
IdealPruneReturnsMinimum ==
    (call.pc = "returned" /\ root["a"] # Null) =>
        /\ call.ret >= MIN_TOLERANCE /\ call.ret <= MAX_TOLERANCE
        /\ pruneSize(heap, root["a"], call.ret) <= call.numLeaves
        /\ call.ret = 0 \/ pruneSize(heap, root["a"], call.ret - 1) > call.numLeaves
        /\ \A tolerance \in ProbeTolerances :
              (tolerance >= 0 /\ tolerance < call.ret) =>
                  pruneSize(heap, root["a"], tolerance) > call.numLeaves

\* idealPrune returned a tolerance found strictly inside the interval.
IdealPruneReturned48 ==
    /\ call.pc = "returned" /\ root["a"] # Null
    /\ call.ret = 48 /\ call.numLeaves = 4

(***************************************************************************)
(* C6: idealPrune(numLeaves) terminates: every searchTolerance that is     *)
(* entered reaches a return, for every non-empty tree and every            *)
(* numLeaves >= 1.                                                         *)
(***************************************************************************)
IdealPruneTerminates ==
    (call.pc = "searchTolerance") ~> (call.pc = "returned")

\* A searchTolerance invocation whose body calls searchTolerance with the
\* arguments it was itself called with: the recursion cannot end.
SearchCallsItselfUnchanged ==
    /\ call.pc = "searchTolerance" /\ call.numLeaves >= 1
    /\ root["a"] # Null
    /\ searchTolerance(heap, root["a"], call.numLeaves,
                       call.minTolerance, call.maxTolerance) = call

(***************************************************************************)
(* C7: pruneSize is non-increasing in the tolerance: for every tree and    *)
(* all tolerances t1 <= t2, pruneSize(t1) >= pruneSize(t2).                *)
(***************************************************************************)
PruneSizeMonotone ==
    \A t \in Trees :
        (alive[t] /\ Ready) =>
            \A t1 \in ProbeTolerances, t2 \in ProbeTolerances :
                t1 <= t2 =>
                    pruneSize(heap, root[t], t1) >= pruneSize(heap, root[t], t2)

\* A tree whose pruneSize takes three different values over the tolerances.
PruneSizeVaries ==
    /\ NonEmpty("a")
    /\ pruneSize(heap, root["a"], 0) > pruneSize(heap, root["a"], 48)
    /\ pruneSize(heap, root["a"], 48) > pruneSize(heap, root["a"], 108)

(***************************************************************************)
(* C8: clockwiseRotate() turns a tree of side R into the tree of the image *)
(* rotated 90 degrees clockwise: decompress() after the rotation has at    *)
(* (x, y) the color decompress() before it had at (y, R-1-x); pruned or    *)
(* not.                                                                    *)
(***************************************************************************)
RotateIsQuarterTurn ==
    \A t \in Trees :
        NonEmpty(t) =>
            LET before == decompress(heap, root[t], res[t])
                after == decompress(clockwiseRotate(heap, root[t]), root[t], res[t])
            IN  \A p \in Coordinates(res[t]) :
                    after[p] = before[<<p[2], res[t] - 1 - p[1]>>]

\* A partly pruned tree that has been rotated: its bitmap is neither
\* Shades nor a half turn of it, and a quarter turn changes it.
RotatedPruned ==
    /\ PartlyPruned
    /\ LET img == decompress(heap, root["a"], 4)
       IN  /\ \A p \in Coordinates(4) : img[p] = Shades[<<p[2], 3 - p[1]>>]
           /\ img # Shades

(***************************************************************************)
(* C9: four consecutive clockwiseRotate() calls restore the tree: for      *)
(* every coordinate, getPixel after the fourth call equals getPixel        *)
(* before the first.                                                       *)
(***************************************************************************)
FourRotationsRestore ==
    \A t \in Trees :
        alive[t] =>
            LET r1 == clockwiseRotate(heap, root[t])
                r2 == clockwiseRotate(r1, root[t])
                r3 == clockwiseRotate(r2, root[t])
                r4 == clockwiseRotate(r3, root[t])
            IN  Pixels(r4, root[t], res[t]) = Pixels(heap, root[t], res[t])

\* A tree of side 4 on which one, two and three rotations each change
\* what getPixel answers.
RotationVisible ==
    /\ NonEmpty("a") /\ res["a"] = 4
    /\ LET r1 == clockwiseRotate(heap, root["a"])
           r2 == clockwiseRotate(r1, root["a"])
           r3 == clockwiseRotate(r2, root["a"])
           now == Pixels(heap, root["a"], 4)
       IN  /\ Pixels(r1, root["a"], 4) # now
           /\ Pixels(r2, root["a"], 4) # now
           /\ Pixels(r3, root["a"], 4) # now

(***************************************************************************)
(* C10: in every reachable state every allocated node has either all four  *)
(* child relations null or all four non-null, so that testing nwChild      *)
(* alone tells a leaf from an internal node.                               *)
(***************************************************************************)
ZeroOrFourChildren ==
    \A n \in NodeIds :
        heap[n].alloc =>
            /\ \/ /\ heap[n].nwChild = Null /\ heap[n].neChild = Null
                  /\ heap[n].swChild = Null /\ heap[n].seChild = Null
               \/ /\ heap[n].nwChild # Null /\ heap[n].neChild # Null
                  /\ heap[n].swChild # Null /\ heap[n].seChild # Null
            /\ hasChildren(heap, n) <=> ~IsLeaf(heap, n)

\* Two live trees after a build, a prune, a copy and a rotation: b is a
\* partly pruned tree, a holds a different bitmap of the same size.
PrunedCopyBesideOriginal ==
    /\ NonEmpty("a") /\ NonEmpty("b")
    /\ res["a"] = 4 /\ res["b"] = 4
    /\ \E c \in Children(heap, root["b"]) : IsLeaf(heap, c)
    /\ \E c \in Children(heap, root["b"]) : ~IsLeaf(heap, c)
    /\ Cardinality(LeavesBelow(heap, root["a"])) = 4
    /\ decompress(heap, root["a"], 4) # decompress(heap, root["b"], 4)

(***************************************************************************)
(* Vocabulary of the later properties.                                     *)
(***************************************************************************)
\* The tree below n as a value: its colors and its shape, without the
\* addresses.  An absent child is the empty tuple.
RECURSIVE TreeOf(_, _)
TreeOf(h, n) ==
    IF n = Null THEN <<>>
    ELSE <<h[n].element,
           TreeOf(h, h[n].nwChild), TreeOf(h, h[n].neChild),
           TreeOf(h, h[n].swChild), TreeOf(h, h[n].seChild)>>

(***************************************************************************)
(* C11: after a = b or the copy construction a(b), tree a has the          *)
(* resolution, the shape and the node colors b had immediately before the  *)
(* operation; for every pair of tree objects, a and b the same object      *)
(* (self-assignment) and b empty included.                                 *)
(***************************************************************************)
CopyEqualsOriginal ==
    [][\A t \in Trees, other \in Trees :
          (Assign(t, other) \/ CopyConstruct(t, other)) =>
              /\ res'[t] = res[other]
              /\ TreeOf(heap', root'[t]) = TreeOf(heap, root[other])]_vars

\* Tree a after a = a: its nodes are gone, its resolution is still 4.
SelfAssignedIsEmpty ==
    /\ alive["a"] /\ root["a"] = Null /\ res["a"] = 4

(***************************************************************************)
(* C12: getPixel(x, y) returns the default-constructed color, without      *)
(* reading any node, whenever the tree is empty or x < 0 or y < 0 or       *)
(* x >= R or y >= R, in every reachable state.                             *)
(***************************************************************************)
\* Coordinates handed to getPixel: from below 0 to above the largest R.
QueryRange == (-1)..5

\* A heap in which every cell holds a color no image has: an answer that
\* is the same on it never came out of a node.
Poisoned == [n \in NodeIds |-> QuadtreeNode(RGBAPixel(1, 2, 3, 4))]

OutsideOrEmptyIsDefault ==
    \A t \in Trees :
        alive[t] =>
            \A x \in QueryRange, y \in QueryRange :
                (root[t] = Null \/ x < 0 \/ y < 0 \/ x >= res[t] \/ y >= res[t])
                => /\ getPixel(heap, root[t], res[t], x, y) = DefaultPixel
                   /\ getPixel(Poisoned, root[t], res[t], x, y) = DefaultPixel

\* Tree a answers getPixel(1, 1) with a color of its image while tree b is
\* empty with a resolution of 4, so that (1, 1) is inside b's bounds.
EmptyBesideBuilt ==
    /\ NonEmpty("a") /\ res["a"] = 4
    /\ getPixel(heap, root["a"], 4, 1, 1) # DefaultPixel
    /\ alive["b"] /\ root["b"] = Null /\ res["b"] = 4

(***************************************************************************)
(* C13: pruneSize(t) leaves the tree unchanged (same nodes, same child     *)
(* relations, same colors, same resolution) for every tolerance t, and a   *)
(* second call with the same t on the tree the first call left returns     *)
(* the same count.                                                         *)
(***************************************************************************)
PruneSizeIsPure ==
    [][call'.pc = "pruneSize" =>
          /\ heap' = heap /\ root' = root /\ res' = res /\ alive' = alive
          /\ pruneSize(heap', root'[call'.tree], call'.tolerance) = call'.ret]_vars

\* pruneSize(48) has returned 4 on a tree that has all its 16 leaves.
PruneSizeReturned4 ==
    /\ call.pc = "pruneSize" /\ call.tolerance = 48 /\ call.ret = 4
    /\ Cardinality(LeavesBelow(heap, root[call.tree])) = 16

(***************************************************************************)
(* C14: node ownership is a strict forest in every state reachable by      *)
(* buildTree, copy construction, assignment, prune, clockwiseRotate and    *)
(* destruction: every allocated node is reached from exactly one live      *)
(* tree's root by exactly one path, no freed node is reached from a root,  *)
(* no allocated node is unreached; and a mutation of one tree leaves the   *)
(* shape and colors of the other as they were.                             *)
(***************************************************************************)
\* The nodes met on a walk from n through all four child relations, one
\* entry per visit.  A walk longer than the heap has nodes is cut: it has
\* met some node twice already.
RECURSIVE Walk(_, _, _)
Walk(h, n, fuel) ==
    IF n = Null THEN <<>>
    ELSE IF fuel = 0 THEN <<n>>
    ELSE <<n>> \o Walk(h, h[n].nwChild, fuel - 1)
               \o Walk(h, h[n].neChild, fuel - 1)
               \o Walk(h, h[n].swChild, fuel - 1)
               \o Walk(h, h[n].seChild, fuel - 1)

Visits == Walk(heap, root["a"], Cardinality(NodeIds))
          \o Walk(heap, root["b"], Cardinality(NodeIds))

OwnershipIsForest ==
    /\ \A t \in Trees : ~alive[t] => root[t] = Null
    /\ LET visits == Visits
           met == {visits[i] : i \in 1..Len(visits)}
       IN  /\ Cardinality(met) = Len(visits)
           /\ met = {n \in NodeIds : heap[n].alloc}
    /\ \A t \in Trees, o \in Trees :
          (t # o /\ alive[t] /\ alive[o]) =>
              /\ \A tolerance \in Tolerances :
                    TreeOf(prune(heap, root[t], tolerance), root[o])
                        = TreeOf(heap, root[o])
              /\ TreeOf(clockwiseRotate(heap, root[t]), root[o])
                    = TreeOf(heap, root[o])
              /\ TreeOf(deleteQuadtreeNode(heap, root[t]), root[o])
                    = TreeOf(heap, root[o])

\* Tree b is a copy of a that was pruned afterwards: both show the Shades
\* image, a through its 16 leaves and b through 7.
PrunedCopyOfFullTree ==
    /\ NonEmpty("a") /\ NonEmpty("b") /\ res["a"] = 4 /\ res["b"] = 4
    /\ decompress(heap, root["a"], 4) = Shades
    /\ decompress(heap, root["b"], 4) = Shades
    /\ Cardinality(LeavesBelow(heap, root["a"])) = 16
    /\ Cardinality(LeavesBelow(heap, root["b"])) = 7

(***************************************************************************)
(* C15: in every reachable state the color of every internal node equals,  *)
(* in each of the four channels, alpha included, the truncating integer    *)
(* average (c1 + c2 + c3 + c4) / 4 of the colors of its four current       *)
(* children, the sum taken without 8-bit overflow.                         *)
(***************************************************************************)
\* The sum of one channel over the four children of n.
ChannelSum(h, n, channel) ==
    h[h[n].nwChild].element[channel] + h[h[n].neChild].element[channel]
    + h[h[n].swChild].element[channel] + h[h[n].seChild].element[channel]

Channels == {"red", "green", "blue", "alpha"}

InternalIsAverage ==
    \A n \in NodeIds :
        (heap[n].alloc /\ ~IsLeaf(heap, n)) =>
            \A channel \in Channels :
                heap[n].element[channel] = ChannelSum(heap, n, channel) \div 4

\* Tree b has an internal node whose children's red values add up to 10,
\* which 4 does not divide, and whose blue values add up to 1000; tree a is
\* a partly pruned tree whose root's children have an alpha sum of 1020.
AverageTruncatesWithoutOverflow ==
    /\ NonEmpty("a") /\ NonEmpty("b")
    /\ \E n \in Subtree(heap, root["b"]) :
          /\ ~IsLeaf(heap, n)
          /\ ChannelSum(heap, n, "red") = 10 /\ heap[n].element.red = 2
          /\ ChannelSum(heap, n, "blue") = 1000 /\ heap[n].element.blue = 250
    /\ Cardinality(LeavesBelow(heap, root["a"])) = 7
    /\ ChannelSum(heap, root["a"], "alpha") = 1020

(***************************************************************************)
(* C16: the pruning error is bounded by the tolerance.  For a tree freshly *)
(* built from image I and any t >= 0, after one prune(t) every pixel       *)
(* (x, y) of decompress() has squared RGB distance at most t from I(x, y); *)
(* prune(0) changes no pixel's red, green or blue value.                   *)
(***************************************************************************)
\* Tree t is, node for node, the tree buildTree makes of the named source
\* at the resolution t has.
FreshlyBuilt(t, name) ==
    /\ NonEmpty(t)
    /\ LET b == buildTree(heap, Arena(t), root[t], Source(name), res[t])
       IN  TreeOf(heap, root[t]) = TreeOf(b.heap, b.node)

PruneErrorWithinTolerance ==
    \A t \in Trees, name \in TreeSourceNames :
        (Ready /\ FreshlyBuilt(t, name)) =>
            \A tolerance \in ProbeTolerances :
                tolerance >= 0 =>
                    LET I == Source(name)
                        img == decompress(prune(heap, root[t], tolerance),
                                          root[t], res[t])
                    IN  \A p \in Coordinates(res[t]) :
                            /\ Dist(img[p], I[p]) <= tolerance
                            /\ tolerance = 0 =>
                                  /\ img[p].red = I[p].red
                                  /\ img[p].green = I[p].green
                                  /\ img[p].blue = I[p].blue

\* The Shades tree after prune(48): four leaves, and the pixel at (0, 0),
\* grey 0 in the source, is now grey 4, at distance exactly 48.
PrunedToTheTolerance ==
    /\ NonEmpty("a") /\ res["a"] = 4
    /\ Cardinality(LeavesBelow(heap, root["a"])) = 4
    /\ LET img == decompress(heap, root["a"], 4)
       IN  /\ img[<<0, 0>>] = Grey(4) /\ img[<<1, 0>>] = Grey(4)
           /\ img[<<2, 0>>] = Grey(10) /\ img[<<0, 2>>] = Grey(4)
           /\ img[<<2, 2>>] = Grey(6)
           /\ Dist(img[<<0, 0>>], Shades[<<0, 0>>]) = 48
           /\ Dist(img[<<1, 0>>], Shades[<<1, 0>>]) = 48

(***************************************************************************)
(* C17, as stated: prune is idempotent for a fixed tolerance.  For every   *)
(* tree and every t >= 0, directly after prune(t) the value pruneSize(t)   *)
(* equals the tree's current leaf count, and a second prune(t) removes no  *)
(* further node.                                                           *)
(***************************************************************************)
PruneIsIdempotent ==
    \A t \in Trees, tolerance \in ProbeTolerances :
        (alive[t] /\ Ready /\ tolerance >= 0) =>
            LET P == prune(heap, root[t], tolerance)
            IN  /\ pruneSize(P, root[t], tolerance)
                      = Cardinality(LeavesBelow(P, root[t]))
                /\ prune(P, root[t], tolerance) = P

(***************************************************************************)
(* C17, amended: prune is idempotent for tolerance 0.  For t > 0 a second  *)
(* prune(t) directly after prune(t) may collapse further nodes, since the  *)
(* leaves it judges are the averages the first prune left; it removes      *)
(* nodes only, changes no surviving color, and leaves pruneSize(t) leaves, *)
(* which is at most the leaf count the first prune left.                   *)
(***************************************************************************)
SecondPruneOnlyRemoves ==
    \A t \in Trees, tolerance \in ProbeTolerances :
        (alive[t] /\ Ready /\ tolerance >= 0) =>
            LET P == prune(heap, root[t], tolerance)
                Q == prune(P, root[t], tolerance)
            IN  /\ Subtree(Q, root[t]) \subseteq Subtree(P, root[t])
                /\ \A n \in Subtree(Q, root[t]) : Q[n].element = P[n].element
                /\ Cardinality(LeavesBelow(Q, root[t]))
                      = pruneSize(P, root[t], tolerance)
                /\ pruneSize(P, root[t], tolerance)
                      <= Cardinality(LeavesBelow(P, root[t]))
                /\ tolerance = 0 =>
                      /\ Q = P
                      /\ pruneSize(P, root[t], tolerance)
                            = Cardinality(LeavesBelow(P, root[t]))

\* The tree prune(48) left of Shades: four leaves under the root, all of
\* them within 48 of the root's grey 6, so that a second prune(48) leaves
\* one leaf.
SecondPruneCollapsesRoot ==
    /\ NonEmpty("a") /\ res["a"] = 4
    /\ Cardinality(LeavesBelow(heap, root["a"])) = 4
    /\ heap[root["a"]].element = Grey(6)
    /\ pruneSize(heap, root["a"], 48) = 1
    /\ pruneSize(heap, root["a"], 47) = 4

====
